---------------------------- MODULE Spec2Model ----------------------------
(***************************************************************************)
(* A model of sort_folder.py: the ImageGui labelling session.  The state   *)
(* is the in-memory record store, the current index, the text and image    *)
(* on screen, the file system under the destination folder, and the        *)
(* data.json snapshot.  Every Tk callback (next, prev, unlabeled, a label   *)
(* button, a number key) is an action; vote and go_to_unlabeled are        *)
(* followed statement by statement with a program counter, because the     *)
(* process can be stopped, and an I/O call can raise, between statements.  *)
(***************************************************************************)
EXTENDS Integers, Sequences, FiniteSets, TLC

(***************************************************************************)
(* Bounds of the model.                                                    *)
(***************************************************************************)
\* The longest image list a session is started with.
MaxCount == 2
\* The length of the longest store that is written and read back.
LongCount == 11
\* How many I/O faults (a file removed behind the program's back, a
\* permission error, a full disk) the environment injects in one session.
MaxFaults == 1

(***************************************************************************)
(* Values.                                                                 *)
(***************************************************************************)
\* Python's None as a record label; a str label l is <<l>>.
None == <<>>
Str(l) == <<l>>

\* File contents: no file, a truncated file, or the bytes of an original
\* (named by the path the bytes were first found at).
Absent == <<>>
Partial == <<"partial">>

\* args.labels, the labels given with --labels.
labels == <<"cat", "dog">>
n_labels == Len(labels)
LabelSet == {labels[k] : k \in 1..n_labels}
\* A label that is not among the configured ones, for a direct call of vote.
OtherLabel == "bird"

\* args.output_folder, default 'sorted'.
destination == <<"sorted">>
\* self.data_path = os.path.join(destination, 'data.json')
data_path == destination \o <<"data.json">>

\* The image paths a session can be started with, as path components.  The
\* input folder holds the destination folder: the second path is an image
\* that an earlier session copied there, and has the basename of the first.
ImagePool ==
  << <<"in", "a.jpg">>, <<"sorted", "cat", "a.jpg">>, <<"in", "b.jpg">>,
     <<"in", "sub", "b.jpg">> >>
PoolSet == {ImagePool[k] : k \in 1..Len(ImagePool)}

\* os.path.split(input_path)[1]
Basename(path) == path[Len(path)]

\* output_folder and output_path of _copy_image.
OutputFolder(label) == destination \o <<label>>
OutputPath(input_path, label) == OutputFolder(label) \o <<Basename(input_path)>>

\* A file of the input folder that is no image.
Notes == <<"in", "notes.txt">>

AllLabels == LabelSet \cup {OtherLabel}
AllFiles ==
  PoolSet \cup {OutputPath(p, l) : p \in PoolSet, l \in AllLabels} \cup {Notes}
DestDirs == {destination} \cup {OutputFolder(l) : l \in AllLabels}

IsPrefix(d, p) == Len(d) < Len(p) /\ SubSeq(p, 1, Len(d)) = d

\* The image lists of the sessions: the first n paths of the pool, for
\* every n from 1 to MaxCount.
ImageLists ==
  {SubSeq(ImagePool, 1, n) :
     n \in 1..(IF MaxCount < Len(ImagePool) THEN MaxCount ELSE Len(ImagePool))}

\* init_records: position i holds the i-th path and no label.
init_records(image_paths) ==
  [i \in 0..(Len(image_paths) - 1) |->
     [path |-> image_paths[i + 1], label |-> None]]

(***************************************************************************)
(* json.dump(records, f, indent=2, sort_keys=True) and load_records.       *)
(***************************************************************************)
Digits == <<"0", "1", "2", "3", "4", "5", "6", "7", "8", "9">>

RECURSIVE IntToStr(_)
\* str(k) of a dict key k >= 0, as json.dump writes it.
IntToStr(k) ==
  IF k < 10 THEN Digits[k + 1]
  ELSE IntToStr(k \div 10) \o Digits[(k % 10) + 1]

\* int(s) of a key string, as load_records reads it.
StrToInt(s) == CHOOSE k \in 0..99 : IntToStr(k) = s

JsonNull == [type |-> "null", val |-> ""]
JsonString(s) == [type |-> "string", val |-> s]
\* A JSON number, and the value of an object member that is not there.
JsonNumber(s) == [type |-> "number", val |-> s]
JsonMissing == [type |-> "missing", val |-> ""]

\* What json.load makes of a label that is a JSON number or of a record
\* without 'path': a Python int, and a dict without the key.
PyInt(s) == <<"int", s>>
NoPath == <<>>

\* A dump of the records as they were before any vote.
JsonMemberUnlabeled(k, rec) ==
  [key |-> IntToStr(k), path |-> JsonString(rec.path), label |-> JsonNull]

\* A dump that writes str(label): None becomes the string "None".
JsonMemberStr(k, rec) ==
  [key |-> IntToStr(k),
   path |-> JsonString(rec.path),
   label |-> JsonString(IF rec.label = None THEN "None" ELSE rec.label[1])]

\* One "key": {"label": ..., "path": ...} member of the dumped object.
JsonMember(k, rec) ==
  [key |-> IntToStr(k),
   path |-> JsonString(rec.path),
   label |-> IF rec.label = None THEN JsonNull
             ELSE IF Len(rec.label) = 1 THEN JsonString(rec.label[1])
             ELSE JsonNumber(rec.label[2])]

\* The members of the dumped object in the order sort_keys writes them.
JsonDump(recs) ==
  [i \in 1..Cardinality(DOMAIN recs) |-> JsonMember(i - 1, recs[i - 1])]

\* The file is absent, or holds the members written so far; closed says
\* that the whole object, closing brace included, has been written.
NoFile == [exists |-> FALSE, members |-> <<>>, closed |-> FALSE]
Truncated == [exists |-> TRUE, members |-> <<>>, closed |-> FALSE]
WholeFile(recs) == [exists |-> TRUE, members |-> JsonDump(recs), closed |-> TRUE]
PartFile(recs, k) ==
  [exists |-> TRUE, members |-> SubSeq(JsonDump(recs), 1, k), closed |-> FALSE]

\* json.load succeeds on a complete object only.
Loadable(file) == file.exists /\ file.closed

\* int(k) raises ValueError on a key that is no numeral.
IsIntString(s) == \E k \in 0..99 : IntToStr(k) = s
IntKeys(file) ==
  \A i \in 1..Len(file.members) : IsIntString(file.members[i].key)

\* load_records: {int(k): v for k, v in records.items()}.  The values are
\* taken as json.load made them; nothing looks at 'path' or 'label'.
load_records(file) ==
  LET Keys == {StrToInt(file.members[i].key) : i \in 1..Len(file.members)}
      At(k) == CHOOSE i \in 1..Len(file.members) :
                 StrToInt(file.members[i].key) = k
  IN [k \in Keys |->
        [path |-> IF file.members[At(k)].path.type = "missing" THEN NoPath
                  ELSE file.members[At(k)].path.val,
         label |-> IF file.members[At(k)].label.type = "null" THEN None
                   ELSE IF file.members[At(k)].label.type = "string"
                   THEN Str(file.members[At(k)].label.val)
                   ELSE PyInt(file.members[At(k)].label.val)]]

(***************************************************************************)
(* The state.                                                              *)
(***************************************************************************)
VARIABLES
  records,    \* self.records: position -> [path, label]
  index,      \* self.index
  message,    \* the message _update_text_display last put before the progress
  image,      \* the path of the image in self.image_panel
  fs,         \* path -> content of the image files
  dirs,       \* the directories that exist under the destination
  data_json,  \* the file at self.data_path
  pc,         \* where the running callback stands; "idle" between callbacks
  label,      \* the label parameter of the running vote
  scan,       \* the local index of the running go_to_unlabeled
  outcome,    \* how the last callback ended: "ok" or the exception Tk reported
  persisted,  \* the store written by the last _write_data that returned
  faults,     \* the number of I/O faults injected so far
  args,       \* args.images, args.input_folder, args.data: None or <<value>>
  source      \* the image sources main has read

vars == <<records, index, message, image, fs, dirs, data_json, pc, label,
          scan, outcome, persisted, faults, args, source>>

\* self.n_records = len(records)
n_records == Cardinality(DOMAIN records)

NoMessage == <<>>
PastLast == <<"Cannot go past last image">>
BeforeFirst == <<"Cannot go before first image">>

\* Image.open(path) succeeds on a whole image file.
CanLoad(path) == path \in DOMAIN fs /\ fs[path] # Absent /\ fs[path] # Partial

Init ==
  \E image_paths \in ImageLists :
    /\ records = init_records(image_paths)
    /\ index = 0
    /\ message = NoMessage
    /\ image = image_paths[1]
    /\ fs = [p \in AllFiles |->
               IF \E i \in 1..Len(image_paths) : image_paths[i] = p
               THEN p ELSE Absent]
    /\ dirs = {d \in DestDirs :
                 \E i \in 1..Len(image_paths) : IsPrefix(d, image_paths[i])}
    /\ data_json = NoFile
    /\ pc = "idle"
    /\ label = ""
    /\ scan = 0
    /\ outcome = "ok"
    /\ persisted = <<>>
    /\ faults = 0
    /\ args = [images |-> <<image_paths>>, input_folder |-> None, data |-> None]
    /\ source = {"images"}

(***************************************************************************)
(* Navigation.                                                             *)
(***************************************************************************)
\* _go_to_index without its first branch.
ClampIndexNoUpper(i) == IF i < 0 THEN 0 ELSE i

\* The index _go_to_index settles on.
ClampIndex(i) ==
  IF i >= n_records THEN n_records - 1
  ELSE IF i < 0 THEN 0
  ELSE i

\* The message _go_to_index hands to _update_text_display.
ClampMessage(i) ==
  IF i >= n_records THEN PastLast
  ELSE IF i < 0 THEN BeforeFirst
  ELSE NoMessage

\* set_image(path): the panel changes only when the image loads.
set_image(path) ==
  IF CanLoad(path)
  THEN image' = path /\ outcome' = "ok"
  ELSE image' = image /\ outcome' = "ImageLoadError"

\* A _go_to_index that saves the store on every move.
_go_to_index_saving(i) ==
  /\ index' = ClampIndex(i)
  /\ message' = ClampMessage(i)
  /\ set_image(records[ClampIndex(i)].path)
  /\ data_json' = WholeFile(records)
  /\ UNCHANGED <<records, fs, dirs>>

\* _go_to_index(i): assign self.index, update the text, set the image, and
\* nothing else.  records[self.index] raises KeyError when the index is no
\* key.
_go_to_index(i) ==
  /\ index' = ClampIndex(i)
  /\ IF ClampIndex(i) \in DOMAIN records
     THEN /\ message' = ClampMessage(i)
          /\ set_image(records[ClampIndex(i)].path)
     ELSE /\ message' = message
          /\ image' = image
          /\ outcome' = "KeyError"
  /\ UNCHANGED <<records, fs, dirs, data_json>>

show_next_image ==
  /\ pc = "idle"
  /\ _go_to_index(index + 1)
  /\ UNCHANGED <<pc, label, scan, persisted, faults>>
  /\ UNCHANGED <<args, source>>

show_prev_image ==
  /\ pc = "idle"
  /\ _go_to_index(index - 1)
  /\ UNCHANGED <<pc, label, scan, persisted, faults>>
  /\ UNCHANGED <<args, source>>

\* A scan for the next unlabeled record, from the current one on.
ScanStartAtIndex == index

\* The index go_to_unlabeled starts its scan at: index = 0.
ScanStart == 0

\* while self.records[index]['label'] is not None: index += 1 ...
\* if index >= self.n_records: break
ScanBreak(i) == i >= n_records

\* go_to_unlabeled, its first statement: index = 0.
go_to_unlabeled ==
  /\ pc = "idle"
  /\ scan' = ScanStart
  /\ pc' = "scan"
  /\ outcome' = "ok"
  /\ UNCHANGED <<records, index, message, image, fs, dirs, data_json, label,
                 persisted, faults>>
  /\ UNCHANGED <<args, source>>

\* One test of the while condition, which reads records[index], and what
\* follows it: the loop body, or the call of _go_to_index after the loop.
scan_step ==
  /\ pc = "scan"
  /\ IF scan \notin DOMAIN records
     THEN /\ outcome' = "KeyError"
          /\ pc' = "idle"
          /\ UNCHANGED <<records, index, message, image, fs, dirs, data_json,
                         scan>>
     ELSE IF records[scan].label # None /\ ~ScanBreak(scan + 1)
     THEN /\ scan' = scan + 1
          /\ UNCHANGED <<records, index, message, image, fs, dirs, data_json,
                         pc, outcome>>
     ELSE /\ _go_to_index(IF records[scan].label # None THEN scan + 1 ELSE scan)
          /\ scan' = 0
          /\ pc' = "idle"
  /\ UNCHANGED <<label, persisted, faults>>
  /\ UNCHANGED <<args, source>>

(***************************************************************************)
(* vote: label mutation, _copy_image, _write_data, show_next_image.        *)
(***************************************************************************)
\* A vote that catches the exception of _copy_image and goes on.
CopyFailedIgnored ==
  /\ pc' = "write"
  /\ outcome' = "CopyFailure"
  /\ label' = label

\* An exception that leaves vote ends the callback: Tk reports it and the
\* main loop goes on with the next event.  vote catches nothing, so an
\* exception of _copy_image leaves it at once ...
CopyFailed ==
  /\ pc' = "idle"
  /\ outcome' = "CopyFailure"
  /\ label' = ""

\* ... and so does an exception of _write_data.
WriteFailed ==
  /\ pc' = "idle"
  /\ outcome' = "PersistFailure"
  /\ label' = ""

\* A vote that calls _copy_image before it sets the label.
vote_unset(l) ==
  /\ pc = "idle"
  /\ label' = l
  /\ pc' = "copy"
  /\ outcome' = "ok"
  /\ UNCHANGED <<records, index, message, image, fs, dirs, data_json, scan,
                 persisted, faults>>
  /\ UNCHANGED <<args, source>>

\* A vote on records that all share one dict: every label changes.
vote_shared(l) ==
  /\ pc = "idle"
  /\ records' = [i \in DOMAIN records |-> [records[i] EXCEPT !.label = Str(l)]]
  /\ label' = l
  /\ pc' = "copy"
  /\ outcome' = "ok"
  /\ UNCHANGED <<index, message, image, fs, dirs, data_json, scan, persisted,
                 faults>>
  /\ UNCHANGED <<args, source>>

\* The first statements of vote(l), up to
\* self.records[self.index]['label'] = label.
vote(l) ==
  /\ pc = "idle"
  /\ IF index \notin DOMAIN records
     THEN /\ outcome' = "KeyError"
          /\ UNCHANGED <<records, pc, label>>
     ELSE /\ records' = [records EXCEPT ![index].label = Str(l)]
          /\ label' = l
          /\ pc' = "copy"
          /\ outcome' = "ok"
  /\ UNCHANGED <<index, message, image, fs, dirs, data_json, scan, persisted,
                 faults>>
  /\ UNCHANGED <<args, source>>

\* A label button: command=lambda l=label: self.vote(l).
vote_button == \E k \in 1..n_labels : vote(labels[k])

\* A number key: label = self.labels[pressed_key-1].
vote_key == \E pressed_key \in 1..n_labels : vote(labels[(pressed_key - 1) + 1])

\* vote called with a label that is not configured.
vote_call == vote(OtherLabel)

\* _copy_image(input_path, self.destination, label): os.makedirs, then
\* shutil.copyfile, which raises when the source is the destination or is
\* missing.
_copy_image ==
  /\ pc = "copy"
  /\ LET input_path == records[index].path
         output_path == OutputPath(input_path, label)
     IN /\ dirs' = dirs \cup {destination, OutputFolder(label)}
        /\ IF input_path = output_path \/ fs[input_path] = Absent
           THEN fs' = fs /\ CopyFailed
           ELSE /\ fs' = [fs EXCEPT ![output_path] = fs[input_path]]
                /\ pc' = "write"
                /\ UNCHANGED <<outcome, label>>
  /\ UNCHANGED <<records, index, message, image, data_json, scan, persisted,
                 faults>>
  /\ UNCHANGED <<args, source>>

\* _copy_image against an I/O fault: os.makedirs is refused, or the disk
\* fills while shutil.copyfile writes the destination file.
_copy_image_fault ==
  /\ pc = "copy"
  /\ faults < MaxFaults
  /\ faults' = faults + 1
  /\ LET input_path == records[index].path
         output_path == OutputPath(input_path, label)
     IN \/ UNCHANGED <<dirs, fs>>
        \/ /\ input_path # output_path
           /\ fs[input_path] # Absent
           /\ dirs' = dirs \cup {destination, OutputFolder(label)}
           /\ fs' = [fs EXCEPT ![output_path] = Partial]
  /\ CopyFailed
  /\ UNCHANGED <<records, index, message, image, data_json, scan, persisted>>
  /\ UNCHANGED <<args, source>>

\* _write_data, open(path, 'w'): the file is created or truncated.
_write_data_open ==
  /\ pc = "write"
  /\ IF destination \in dirs
     THEN data_json' = Truncated /\ pc' = "dump" /\ UNCHANGED <<outcome, label>>
     ELSE data_json' = data_json /\ WriteFailed
  /\ UNCHANGED <<records, index, message, image, fs, dirs, scan, persisted,
                 faults>>
  /\ UNCHANGED <<args, source>>

\* _write_data, json.dump(records, f, indent=2, sort_keys=True) and the
\* close at the end of the with block.
_write_data_dump ==
  /\ pc = "dump"
  /\ data_json' = WholeFile(records)
  /\ persisted' = records
  /\ pc' = "next"
  /\ UNCHANGED <<records, index, message, image, fs, dirs, label, scan,
                 outcome, faults>>
  /\ UNCHANGED <<args, source>>

\* _write_data against an I/O fault: open is refused, or the disk fills
\* while json.dump writes, here before the last member.
_write_data_fault ==
  /\ faults < MaxFaults
  /\ faults' = faults + 1
  /\ \/ pc = "write" /\ data_json' = data_json
     \/ /\ pc = "dump"
        /\ data_json' = PartFile(records, n_records - 1)
  /\ WriteFailed
  /\ UNCHANGED <<records, index, message, image, fs, dirs, scan, persisted>>
  /\ UNCHANGED <<args, source>>

\* A vote that ends on the record it has labelled.
vote_stay ==
  /\ pc = "next"
  /\ _go_to_index(index)
  /\ pc' = "idle"
  /\ label' = ""
  /\ UNCHANGED <<scan, persisted, faults>>
  /\ UNCHANGED <<args, source>>

\* vote, its last statement: self.show_next_image().
vote_show_next ==
  /\ pc = "next"
  /\ _go_to_index(index + 1)
  /\ pc' = "idle"
  /\ label' = ""
  /\ UNCHANGED <<scan, persisted, faults>>
  /\ UNCHANGED <<args, source>>

(***************************************************************************)
(* The environment.                                                        *)
(***************************************************************************)
\* The process stops: the window is closed, or the process is killed at
\* any statement.  What is in memory is gone; the files stay as they are.
process_stops ==
  /\ pc # "stopped"
  /\ pc' = "stopped"
  /\ records' = <<>>
  /\ index' = 0
  /\ message' = NoMessage
  /\ image' = <<>>
  /\ label' = ""
  /\ scan' = 0
  /\ outcome' = "ok"
  /\ UNCHANGED <<fs, dirs, data_json, persisted, faults>>
  /\ UNCHANGED <<args, source>>

\* An original in the input folder is removed while the session is open.
file_removed ==
  /\ pc = "idle"
  /\ faults < MaxFaults
  /\ faults' = faults + 1
  /\ \E i \in DOMAIN records :
       /\ ~IsPrefix(destination, records[i].path)
       /\ fs[records[i].path] # Absent
       /\ fs' = [fs EXCEPT ![records[i].path] = Absent]
  /\ UNCHANGED <<records, index, message, image, dirs, data_json, pc, label,
                 scan, outcome, persisted>>
  /\ UNCHANGED <<args, source>>

Callbacks ==
  \/ show_next_image
  \/ show_prev_image
  \/ go_to_unlabeled
  \/ scan_step
  \/ vote_button
  \/ vote_key
  \/ _copy_image
  \/ _copy_image_fault
  \/ _write_data_open
  \/ _write_data_dump
  \/ _write_data_fault
  \/ vote_show_next
  \/ process_stops
  \/ file_removed

\* The session as the window drives it.
Next == Callbacks

Spec == Init /\ [][Next]_vars

\* The session of a user who only votes, with a button or a key; a copy
\* or a write can fail.
NextVotes ==
  \/ vote_button
  \/ vote_key
  \/ _copy_image
  \/ _copy_image_fault
  \/ _write_data_open
  \/ _write_data_dump
  \/ _write_data_fault
  \/ vote_show_next

SpecVotes == Init /\ [][NextVotes]_vars

\* The session when vote can also be called with any label.
NextAPI == Callbacks \/ vote_call

SpecAPI == Init /\ [][NextAPI]_vars

(***************************************************************************)
(* Startup: main resolves the image source, and ImageGui is constructed.   *)
(***************************************************************************)
\* --input-folder as it is given in these runs.
input_folder == <<"in">>

IMAGE_EXTENSIONS == {".jpg", ".jpeg", ".gif", ".tif", ".tiff", ".psd", ".bmp"}

\* os.path.splitext(path)[1].lower() of the files of the model.
Ext(path) == IF Basename(path) = "notes.txt" THEN ".txt" ELSE ".jpg"

\* os.path.exists(path)
Exists(path) == path \in DOMAIN fs /\ fs[path] # Absent

\* The order in which glob yields the files.
GlobOrder == ImagePool \o <<Notes>>

\* find_images(dirname): the files under dirname with an image extension.
find_images(dirname) ==
  LET Found(p) ==
        IsPrefix(dirname, p) /\ Exists(p) /\ Ext(p) \in IMAGE_EXTENSIONS
  IN SelectSeq(GlobOrder, Found)

\* The stores a snapshot can hold: the first n paths of the pool, each
\* record with no label or with the first label.
SavedStores ==
  UNION {[0..(Len(image_paths) - 1) ->
            {[path |-> p, label |-> l] : p \in PoolSet, l \in {None, Str(labels[1])}}]
         : image_paths \in ImageLists}

Snapshots ==
  {s \in SavedStores : \A i \in DOMAIN s : s[i].path = ImagePool[i + 1]}

\* Snapshots that are no mapping of integer positions to records with a
\* path string and a label that is a string or null: a label that is a
\* number, a record without path, a key that is no integer.
Malformed ==
  {[exists |-> TRUE, closed |-> TRUE,
    members |-> <<[key |-> "0", path |-> JsonString(ImagePool[1]),
                   label |-> JsonNumber("7")]>>],
   [exists |-> TRUE, closed |-> TRUE,
    members |-> <<[key |-> "0", path |-> JsonMissing, label |-> JsonNull]>>],
   [exists |-> TRUE, closed |-> TRUE,
    members |-> <<[key |-> "first", path |-> JsonString(ImagePool[1]),
                   label |-> JsonNull]>>]}

\* The files at args.data when main starts.
SnapshotFiles ==
  {NoFile, Truncated, WholeFile(<<>>)} \cup {WholeFile(s) : s \in Snapshots}
    \cup Malformed

\* The command lines: --images with no path or with a list of paths or not
\* given, --input-folder given or not, --data given or not.
ArgSets ==
  [images : {None, << <<>> >>} \cup {<<image_paths>> : image_paths \in ImageLists},
   input_folder : {None, <<input_folder>>},
   data : {None, <<data_path>>}]

\* The files that exist when main starts.
FileSets ==
  {S \in SUBSET (PoolSet \cup {Notes}) : Cardinality(S) <= MaxCount}

InitMain ==
  /\ args \in ArgSets
  /\ \E S \in FileSets :
       /\ fs = [p \in AllFiles |-> IF p \in S THEN p ELSE Absent]
       /\ data_json \in SnapshotFiles
       /\ dirs = {d \in DestDirs :
                    \/ \E p \in S : IsPrefix(d, p)
                    \/ d = destination /\ data_json.exists}
  /\ records = <<>>
  /\ index = 0
  /\ message = NoMessage
  /\ image = <<>>
  /\ pc = "main"
  /\ label = ""
  /\ scan = 0
  /\ outcome = "ok"
  /\ persisted = <<>>
  /\ faults = 0
  /\ source = {}

\* if args.images: an empty list counts as not given.
images_truthy == args.images # None /\ args.images[1] # <<>>

\* isinstance(args.images, list)
images_given == args.images # None
\* isinstance(args.input_folder, str)
folder_given == args.input_folder # None
\* isinstance(args.data, str)
data_given == args.data # None

\* An exception leaves main: the traceback is printed and the process
\* ends with status 1.
Raised(exception) ==
  /\ pc' = "exited"
  /\ outcome' = exception
  /\ UNCHANGED <<records, index, message, image, fs, dirs, data_json, label,
                 scan, persisted, faults, args>>

\* if not image_paths: print('[ERROR] No images found.'); return 1
\* and otherwise tk.Tk() and the construction of ImageGui.
Resolved(recs, image_paths) ==
  /\ records' = recs
  /\ IF image_paths = <<>>
     THEN pc' = "exited" /\ outcome' = "NoImagesFound"
     ELSE pc' = "gui" /\ outcome' = "ok"
  /\ UNCHANGED <<index, message, image, fs, dirs, data_json, label, scan,
                 persisted, faults, args>>

\* main, first branch: image_paths = args.images.
main_images ==
  /\ pc = "main"
  /\ images_given
  /\ source' = source \cup {"images"}
  /\ Resolved(init_records(args.images[1]), args.images[1])

\* main, second branch: image_paths = find_images(args.input_folder).
main_scan ==
  /\ pc = "main"
  /\ ~images_given
  /\ folder_given
  /\ source' = source \cup {"scan"}
  /\ LET image_paths == find_images(args.input_folder[1])
     IN Resolved(init_records(image_paths), image_paths)

\* main, third branch: records = load_records(args.data), and image_paths
\* the paths of the records whose file exists.
main_load ==
  /\ pc = "main"
  /\ ~images_given
  /\ ~folder_given
  /\ data_given
  /\ source' = source \cup {"load"}
  /\ IF ~data_json.exists THEN Raised("FileNotFoundError")
     ELSE IF ~data_json.closed THEN Raised("JSONDecodeError")
     ELSE IF ~IntKeys(data_json) THEN Raised("ValueError")
     ELSE LET recs == load_records(data_json)
              paths == [i \in 1..Len(data_json.members) |->
                          recs[StrToInt(data_json.members[i].key)].path]
              image_paths == SelectSeq(paths, Exists)
          IN IF \E k \in DOMAIN recs : recs[k].path = NoPath
             THEN Raised("KeyError")
             ELSE Resolved(recs, image_paths)

\* main with none of the three: no branch assigns image_paths, and
\* 'if not image_paths' reads it.
main_none ==
  /\ pc = "main"
  /\ ~images_given
  /\ ~folder_given
  /\ ~data_given
  /\ source' = source
  /\ Raised("UnboundLocalError")

\* ImageGui.__init__: index 0, the widgets, and set_image of record 0.  The
\* exception of set_image leaves __init__ and main.
ImageGui_init ==
  /\ pc = "gui"
  /\ index' = 0
  /\ message' = NoMessage
  /\ IF 0 \in DOMAIN records /\ CanLoad(records[0].path)
     THEN image' = records[0].path /\ outcome' = "ok" /\ pc' = "idle"
     ELSE /\ image' = image
          /\ outcome' = IF 0 \in DOMAIN records THEN "ImageLoadError"
                        ELSE "KeyError"
          /\ pc' = "exited"
  /\ UNCHANGED <<records, fs, dirs, data_json, label, scan, persisted, faults,
                 args, source>>

\* sys.exit(res)
ExitStatus == IF outcome = "ok" THEN 0 ELSE 1

\* A run of the program from its command line, and the navigation of the
\* session it opens.
NextMain ==
  \/ main_images
  \/ main_scan
  \/ main_load
  \/ main_none
  \/ ImageGui_init
  \/ show_next_image
  \/ show_prev_image

SpecMain == InitMain /\ [][NextMain]_vars

(***************************************************************************)
(* A store is written by _write_data and read back by load_records.        *)
(***************************************************************************)
\* The stores of the sessions: the first n paths of the pool, each record
\* with no label or with a label vote was called with.
ShortStores ==
  {s \in UNION {[0..(n - 1) ->
                   {[path |-> p, label |-> l] :
                      p \in PoolSet, l \in {None} \cup {Str(x) : x \in AllLabels}}]
                : n \in 1..MaxCount} :
     \A i \in DOMAIN s : s[i].path = ImagePool[(i % Len(ImagePool)) + 1]}

\* The stores of LongCount records of which the first k have been voted.
LongStores ==
  {[i \in 0..(LongCount - 1) |->
      [path |-> ImagePool[(i % Len(ImagePool)) + 1],
       label |-> IF i < k THEN Str(x) ELSE None]]
   : k \in 1..LongCount, x \in LabelSet}

\* A vote has set its label and copied its image, and calls _write_data.
InitRT ==
  /\ records \in ShortStores \cup LongStores
  /\ index \in DOMAIN records
  /\ records[index].label # None
  /\ label = records[index].label[1]
  /\ records[index].path # OutputPath(records[index].path, label)
  /\ message = NoMessage
  /\ image = records[index].path
  /\ fs = [p \in AllFiles |->
             IF p = OutputPath(records[index].path, label)
             THEN records[index].path
             ELSE IF p \in PoolSet THEN p ELSE Absent]
  /\ dirs = DestDirs
  /\ data_json = NoFile
  /\ pc = "write"
  /\ scan = 0
  /\ outcome = "ok"
  /\ persisted = <<>>
  /\ faults = 0
  /\ args = [images |-> None, input_folder |-> None, data |-> <<data_path>>]
  /\ source = {"load"}

\* The program is started again with the same command line.
rerun ==
  /\ pc = "stopped"
  /\ pc' = "main"
  /\ source' = {}
  /\ UNCHANGED <<records, index, message, image, fs, dirs, data_json, label,
                 scan, outcome, persisted, faults, args>>

NextRT ==
  \/ _write_data_open
  \/ _write_data_dump
  \/ process_stops
  \/ rerun
  \/ main_load

SpecRT == InitRT /\ [][NextRT]_vars

(***************************************************************************)
(* The claims.                                                             *)
(***************************************************************************)
\* There is a file at <destination>/<l>/<basename>.
HasCopy(path, l) == fs[destination \o <<l, path[Len(path)]>>] # Absent

\* The file at <destination>/<l>/<basename> holds the bytes of the file at
\* path: shutil.copyfile has run to its end.
CopyDone(path, l) ==
  LET dst == destination \o <<l, path[Len(path)]>>
  IN fs[dst] # Absent /\ fs[dst] = fs[path]

\* The lowest position without a label, or the last position when every
\* record has one.
FirstUnlabeled(recs) ==
  LET n == Cardinality(DOMAIN recs)
      open == {i \in DOMAIN recs : recs[i].label = None}
  IN IF open = {} THEN n - 1
     ELSE CHOOSE i \in open : \A j \in open : i <= j

\* C1: the position is always one of 0 .. count-1; next at count-1 leaves it
\* at count-1 and prev at 0 leaves it at 0.
C1_Clamping ==
  [][/\ pc' # "stopped" => index' \in 0..(Cardinality(DOMAIN records') - 1)
     /\ (show_next_image /\ index = n_records - 1) => index' = n_records - 1
     /\ (show_prev_image /\ index = 0) => index' = 0]_vars

\* C1: a next at the last position of a store of two or more has been
\* clamped.
C1_Witness ==
  /\ pc = "idle"
  /\ n_records >= 2
  /\ index = n_records - 1
  /\ message = PastLast

\* C2: a vote for label at position P whose copy and persist succeeded has,
\* when it ends, set the label of record P, left a copy of the image at
\* <destination>/<label>/<basename> and label at key P of the snapshot, and
\* moved to P+1, or stayed at count-1 with the message and the session open.
C2_VoteEffects ==
  [][(pc = "next" /\ pc' # "stopped") =>
       LET P == index
           dst == destination \o <<label, records[P].path[Len(records[P].path)]>>
       IN /\ records'[P].label = Str(label)
          /\ fs'[dst] # Absent
          /\ fs'[dst] = fs'[records'[P].path]
          /\ Loadable(data_json')
          /\ P \in DOMAIN load_records(data_json')
          /\ load_records(data_json')[P].label = Str(label)
          /\ pc' = "idle"
          /\ IF P < n_records - 1
             THEN index' = P + 1
             ELSE index' = n_records - 1 /\ message' = PastLast]_vars

\* C2: a vote at the last position has ended with its label in the snapshot.
C2_Witness ==
  /\ pc = "idle"
  /\ n_records >= 2
  /\ index = n_records - 1
  /\ message = PastLast
  /\ records[index].label # None
  /\ Loadable(data_json)
  /\ load_records(data_json)[index].label = records[index].label
  /\ HasCopy(records[index].path, records[index].label[1])

\* C3: within a vote, the copy starts only once the label is set in memory,
\* the persist starts only once the copy is there, and the position changes
\* only once the snapshot holds the store.
C3_VoteOrder ==
  [][/\ (pc \notin {"idle", "stopped"} /\ (fs' # fs \/ dirs' # dirs)) =>
          /\ pc = "copy"
          /\ records[index].label = Str(label)
          /\ data_json' = data_json
          /\ index' = index
     /\ data_json' # data_json =>
          /\ pc \in {"write", "dump"}
          /\ records[index].label = Str(label)
          /\ CopyDone(records[index].path, label)
          /\ (pc' # "stopped" => index' = index)
     /\ (pc \notin {"idle", "scan"} /\ pc' # "stopped" /\ index' # index) =>
          /\ pc = "next"
          /\ Loadable(data_json)
          /\ load_records(data_json) = records]_vars

\* C3: a vote stands before its last statement, the label set, the image
\* copied and the snapshot written.
C3_Witness ==
  /\ pc = "next"
  /\ records[index].label = Str(label)
  /\ CopyDone(records[index].path, label)
  /\ load_records(data_json) = records

\* C4, as claimed: every record that has label L in the snapshot has its
\* copy at <destination>/L/<basename>.
C4_SnapshotNeverAhead ==
  Loadable(data_json) =>
    \A k \in DOMAIN load_records(data_json) :
      LET rec == load_records(data_json)[k]
      IN rec.label # None => HasCopy(rec.path, rec.label[1])

\* C5, as claimed: between callbacks, once a vote has ended (a record has a
\* label in memory), the snapshot equals the store in memory.
C5_SnapshotMirrorsMemory ==
  (pc = "idle" /\ \E i \in DOMAIN records : records[i].label # None) =>
    /\ Loadable(data_json)
    /\ load_records(data_json) = records

\* C6, as claimed: a vote for a label that is not configured is rejected
\* with InvalidLabel and changes nothing.
C6_InvalidLabelRejected ==
  [][vote_call =>
       /\ outcome' = "InvalidLabel"
       /\ pc' = "idle"
       /\ UNCHANGED <<records, index, fs, dirs, data_json>>]_vars

\* C7: the step at which the copy of a vote fails ends the vote with no
\* snapshot write and no move; the step at which the persist fails ends it
\* with no move.
C7_FailureEndsVote ==
  [][/\ outcome' = "CopyFailure" =>
          pc' = "idle" /\ data_json' = data_json /\ index' = index
     /\ outcome' = "PersistFailure" =>
          pc' = "idle" /\ index' = index]_vars

\* C7: a vote has ended at its failed copy, with no snapshot written.
C7_Witness ==
  /\ pc = "idle"
  /\ outcome = "CopyFailure"
  /\ records[index].label # None
  /\ data_json = NoFile

\* C8, as claimed: once a persist has completed, the snapshot file is whole
\* and holds the store of the last persist that completed.
C8_SnapshotAlwaysWhole ==
  persisted # <<>> =>
    /\ Loadable(data_json)
    /\ load_records(data_json) = persisted

\* C9: the scan of go_to_unlabeled reads positions of the store only, each
\* at most once and in rising order (so at most count of them), and ends at
\* the lowest position without a label, or at count-1 when there is none,
\* wherever the session stood.
C9_JumpToUnlabeled ==
  [][/\ pc' = "scan" => scan' \in DOMAIN records'
     /\ (pc = "scan" /\ pc' = "scan") => scan' = scan + 1
     /\ (pc = "scan" /\ pc' = "idle") =>
          /\ outcome' # "KeyError"
          /\ index' = FirstUnlabeled(records)]_vars

\* C9: a scan is about to end at an unlabeled record before the current
\* position.
C9_Witness ==
  /\ pc = "scan"
  /\ scan < index
  /\ records[scan].label = None

\* C10: a step of next, prev or go_to_unlabeled changes no record, no file,
\* no directory and not the snapshot.
C10_NavigationFrame ==
  [][(\/ pc = "idle" /\ pc' \in {"idle", "scan"} /\ faults' = faults
      \/ pc = "scan" /\ pc' \in {"idle", "scan"}) =>
       UNCHANGED <<records, fs, dirs, data_json>>]_vars

\* C10: prev has been clamped at the first position in a session that has
\* a snapshot.
C10_Witness ==
  /\ pc = "idle"
  /\ index = 0
  /\ message = BeforeFirst
  /\ Loadable(data_json)

\* C11: the store keeps its positions 0 .. count-1 and every record its
\* path; only the first statement of a vote changes the store, and it
\* changes the label of the record at the current position only.
C11_StoreShape ==
  [][pc' # "stopped" =>
       /\ DOMAIN records' = DOMAIN records
       /\ DOMAIN records' = 0..(n_records - 1)
       /\ \A i \in DOMAIN records : records'[i].path = records[i].path
       /\ IF pc = "idle" /\ pc' = "copy"
          THEN \A j \in DOMAIN records \ {index} :
                 records'[j].label = records[j].label
          ELSE records' = records]_vars

\* C11: a vote on the second record has begun while the first record has
\* its own, other label.
C11_Witness ==
  /\ pc = "copy"
  /\ index = 1
  /\ records[0].label # None
  /\ records[1].label # None
  /\ records[0].label # records[1].label

\* C13: no statement of the session changes the file at a record's path:
\* across every step that is neither an injected fault nor the stop of the
\* process, the source file of every record keeps its content.
C13_OriginalsUntouched ==
  [][(pc' # "stopped" /\ faults' = faults) =>
       \A i \in DOMAIN records :
         fs'[records[i].path] = fs[records[i].path]]_vars

\* The snapshot holds a mapping of integer positions to records, each with
\* a path string and a label that is a string or null.
WellFormed(file) ==
  /\ Loadable(file)
  /\ \A i \in 1..Len(file.members) :
       /\ IsIntString(file.members[i].key)
       /\ file.members[i].path.type = "string"
       /\ file.members[i].label.type \in {"string", "null"}

\* C14: a run that resumes from a well-formed snapshot in which the file
\* of at least one record exists does not end at startup: the session
\* opens over the records as loaded.
C14_ResumeDoesNotCrash ==
  (/\ source = {"load"}
   /\ WellFormed(data_json)
   /\ \E i \in 1..Len(data_json.members) : Exists(data_json.members[i].path.val))
  => /\ pc # "exited"
     /\ records = load_records(data_json)

\* C15: after main has resolved the source, the records are those of the
\* first source given in the order --images, --input-folder, --data, and
\* no other source has been read, also when the first one is empty.
C15_SourcePrecedence ==
  pc # "main" =>
    /\ args.images # None =>
         /\ source = {"images"}
         /\ records = init_records(args.images[1])
    /\ (args.images = None /\ args.input_folder # None) =>
         /\ source = {"scan"}
         /\ records = init_records(find_images(args.input_folder[1]))
    /\ (args.images = None /\ args.input_folder = None /\ args.data # None) =>
         /\ source = {"load"}
         /\ outcome \in {"ok", "NoImagesFound", "ImageLoadError"} =>
              records = load_records(data_json)

\* C15: --images was given with no path next to a folder that holds an
\* image and a snapshot that holds a record; the run has ended.
C15_Witness ==
  /\ pc = "exited"
  /\ outcome = "NoImagesFound"
  /\ args.images = << <<>> >>
  /\ args.input_folder # None
  /\ args.data # None
  /\ find_images(input_folder) # <<>>
  /\ WellFormed(data_json)
  /\ data_json.members # <<>>
  /\ source = {"images"}

\* C16: a run that resolves no image ends with NoImagesFound and a
\* non-zero status, with no file changed, and a session has a record.
C16_EmptyIsNoImagesFound ==
  /\ (/\ pc = "exited"
      /\ \/ args.images = None /\ args.input_folder = None /\ args.data = None
         \/ outcome \notin {"FileNotFoundError", "JSONDecodeError", "ValueError",
                            "KeyError", "ImageLoadError", "UnboundLocalError"})
     => outcome = "NoImagesFound" /\ ExitStatus # 0
  /\ pc \in {"gui", "idle"} => n_records >= 1

\* C17: a run that loads a snapshot that is not well-formed ends at
\* startup: no session is opened over its records.
C17_MalformedRejected ==
  (/\ source = {"load"}
   /\ Loadable(data_json)
   /\ ~WellFormed(data_json))
  => pc = "exited"

\* C18: between two callbacks the image in the panel is the image of the
\* record at the current index.
C18_ImageIsCurrentRecord ==
  pc = "idle" => image = records[index].path

\* C12: the store that load_records reads from the file _write_data wrote
\* has the positions of the written store and, at each position, its path
\* and its label; a label that was None is None.
C12_RoundTrip ==
  pc = "gui" =>
    /\ DOMAIN records = DOMAIN persisted
    /\ \A k \in DOMAIN persisted :
         /\ records[k].path = persisted[k].path
         /\ records[k].label = persisted[k].label

\* C12: a store with a two-digit position, a labelled and an unlabelled
\* record has been written and read back.
C12_Witness ==
  /\ pc = "gui"
  /\ 10 \in DOMAIN records
  /\ \E i, j \in DOMAIN persisted :
       persisted[i].label = None /\ persisted[j].label # None

\* C19: in a session of votes only, a vote sets the label of the current
\* record and of no other; a vote whose copy and write succeeded ends one
\* position further, or on the last position, with every position up to
\* the voted one labelled, every later one not, and the snapshot equal to
\* the store; and no position after the current one ever has a label.
C19_VotesLabelInOrder ==
  [][/\ (pc = "idle" /\ pc' = "copy") =>
          /\ records'[index].label = Str(label')
          /\ \A j \in DOMAIN records \ {index} :
               records'[j].label = records[j].label
     /\ (pc = "next" /\ pc' = "idle") =>
          /\ index' = IF index + 1 < n_records THEN index + 1
                      ELSE n_records - 1
          /\ \A i \in DOMAIN records :
               (i <= index) <=> (records'[i].label # None)
          /\ Loadable(data_json')
          /\ load_records(data_json') = records'
     /\ pc' = "idle" =>
          \A i \in DOMAIN records : i > index' => records'[i].label = None]_vars

\* C19: two votes have succeeded on a store of two records: both are
\* labelled in memory and in the snapshot and the position is the last.
C19_Witness ==
  /\ pc = "idle"
  /\ outcome = "ok"
  /\ n_records >= 2
  /\ index = n_records - 1
  /\ \A i \in DOMAIN records : records[i].label # None
  /\ Loadable(data_json)
  /\ load_records(data_json) = records
=============================================================================
